---- MODULE Spec2Model ----
(***************************************************************************)
(* Model of vapi/internal/internal.go: the REST resource builder (URL,     *)
(* WithID, WithAction, WithParameter, Request) and the deferred-error JSON *)
(* body encoder (encode, errorReader).                                     *)
(*                                                                         *)
(* Go strings are modelled as sequences of one-character strings, so that  *)
(* concatenation, escaping and parsing are computed and not assumed.       *)
(* *url.URL values live in a heap (urls) and are referred to by address,   *)
(* so that aliasing between the connection's URL and a Resource's URL is   *)
(* something the model can express.                                        *)
(***************************************************************************)
EXTENDS Naturals, Integers, Sequences, FiniteSets, TLC

VARIABLES
    urls,       \* heap of url.URL values, indexed by address
    res,        \* the Resources created so far: <<[u |-> address]>>
    hist,       \* per Resource: the calls made on it (history, not program state)
    bodyVals,   \* caller-owned body values, passed to Request by reference
    req,        \* outcome of the latest Request call
    call,       \* the arguments of the latest Request call (history)
    reads,      \* results of the Read calls on the latest request's body
    pc,         \* race specification: position of each chain
    loc,        \* race specification: each chain's local copy of r.u.Path
    built       \* race specification: the request each chain built

vars == <<urls, res, hist, bodyVals, req, call, reads, pc, loc, built>>

(***************************************************************************)
(* Bounds of the model.                                                    *)
(***************************************************************************)
\* Builder calls chained on one Resource (builder specification).
MaxOps == 2
\* Builder calls chained on the Resource requests are built from (request
\* specification).
MaxBodyOps == 1
\* Read calls on one request body.
MaxReads == 2

(***************************************************************************)
(* Strings.                                                                *)
(***************************************************************************)
Path == <<"/", "r", "e", "s", "t">>
SessionPath ==
    <<"/", "c", "o", "m", "/", "v", "m", "w", "a", "r", "e", "/", "c", "i",
      "s", "/", "s", "e", "s", "s", "i", "o", "n">>
LibraryPath ==
    <<"/", "c", "o", "m", "/", "v", "m", "w", "a", "r", "e", "/", "c", "o",
      "n", "t", "e", "n", "t", "/", "l", "i", "b", "r", "a", "r", "y">>

IdSegment == <<"/", "i", "d", ":">>
ActionKey == <<"~", "a", "c", "t", "i", "o", "n">>

RECURSIVE Concat(_)
Concat(ss) == IF ss = <<>> THEN <<>> ELSE Head(ss) \o Concat(Tail(ss))

\* Index of the first occurrence of character c in s at or after i; 0 if none.
RECURSIVE IndexFrom(_, _, _)
IndexFrom(s, c, i) ==
    IF i > Len(s) THEN 0
    ELSE IF s[i] = c THEN i
    ELSE IndexFrom(s, c, i + 1)

Take(s, n) == SubSeq(s, 1, n)
Drop(s, n) == SubSeq(s, n + 1, Len(s))
HasPrefix(s, p) == Len(s) >= Len(p) /\ Take(s, Len(p)) = p

(***************************************************************************)
(* net/url: escaping as url.URL.String and url.Values.Encode compute it,   *)
(* over the characters the model's inputs use.                             *)
(***************************************************************************)
\* url.QueryEscape of one character (net/url shouldEscape, encodeQueryComponent).
QueryEscapeChar(c) ==
    CASE c = " " -> <<"+">>
      [] c = "&" -> <<"%", "2", "6">>
      [] c = "=" -> <<"%", "3", "D">>
      [] c = "?" -> <<"%", "3", "F">>
      [] c = "/" -> <<"%", "2", "F">>
      [] c = ":" -> <<"%", "3", "A">>
      [] c = "%" -> <<"%", "2", "5">>
      [] c = "+" -> <<"%", "2", "B">>
      [] OTHER -> <<c>>

\* url.URL.EscapedPath of one character (encodePath).
PathEscapeChar(c) ==
    CASE c = " " -> <<"%", "2", "0">>
      [] c = "?" -> <<"%", "3", "F">>
      [] c = "%" -> <<"%", "2", "5">>
      [] OTHER -> <<c>>

\* escape(host, encodeHost) of one character.
HostEscapeChar(c) ==
    CASE c = " " -> <<"%", "2", "0">>
      [] c = "%" -> <<"%", "2", "5">>
      [] OTHER -> <<c>>

QueryEscape(s) == Concat([i \in 1..Len(s) |-> QueryEscapeChar(s[i])])
EscapedPath(s) == Concat([i \in 1..Len(s) |-> PathEscapeChar(s[i])])
EscapedHost(s) == Concat([i \in 1..Len(s) |-> HostEscapeChar(s[i])])

\* url.Values{key: {value}}.Encode() for a one-entry map.
Encode(key, value) == QueryEscape(key) \o <<"=">> \o QueryEscape(value)

\* (*url.URL).String() for a URL with no Opaque, User or Fragment part.
String(u) ==
    (IF u.Scheme # <<>> THEN u.Scheme \o <<":">> ELSE <<>>)
    \o (IF u.Scheme # <<>> \/ u.Host # <<>>
        THEN (IF u.Host # <<>> \/ u.Path # <<>> THEN <<"/", "/">> ELSE <<>>)
             \o EscapedHost(u.Host)
        ELSE <<>>)
    \o (IF u.Path # <<>> /\ u.Path[1] # "/" /\ u.Host # <<>> THEN <<"/">> ELSE <<>>)
    \o EscapedPath(u.Path)
    \o (IF u.RawQuery # <<>> THEN <<"?">> \o u.RawQuery ELSE <<>>)

(***************************************************************************)
(* encoding/json, bytes and io: the readers Request hands to net/http.     *)
(***************************************************************************)
Nil == "nil"
EOF == "EOF"
UnsupportedType == "json: unsupported type"

\* Body values: an Association (types on lines 54-67) with or without its
\* ObjectID, and a value encoding/json cannot serialize (a channel).
Datacenter == <<"D", "a", "t", "a", "c", "e", "n", "t", "e", "r">>
Dc1 == <<"d", "c", "-", "1">>
AssociatedObject(type, value) == [Type |-> type, Value |-> value]
Association(objectID) == [kind |-> "Association", ObjectID |-> objectID]
ChanValue == [kind |-> "chan", ObjectID |-> <<>>]
BodyValues ==
    {Association(<<>>), Association(<<AssociatedObject(Datacenter, Dc1)>>), ChanValue}

\* A JSON string literal (encoding/json escapes the quote and the backslash).
JSONChar(c) ==
    CASE c = "\"" -> <<"\\", "\"">>
      [] c = "\\" -> <<"\\", "\\">>
      [] OTHER -> <<c>>
JSONString(s) == <<"\"">> \o Concat([i \in 1..Len(s) |-> JSONChar(s[i])]) \o <<"\"">>

\* json.Marshal of an AssociatedObject under its field tags `type` and `id`.
MarshalAssociatedObject(o) ==
    <<"{">> \o JSONString(<<"t", "y", "p", "e">>) \o <<":">> \o JSONString(o.Type)
    \o <<",">> \o JSONString(<<"i", "d">>) \o <<":">> \o JSONString(o.Value)
    \o <<"}">>

\* json.Marshal of an Association: object_id is omitted when ObjectID is nil.
MarshalAssociation(a) ==
    IF a.ObjectID = <<>> THEN <<"{", "}">>
    ELSE <<"{">>
         \o JSONString(<<"o", "b", "j", "e", "c", "t", "_", "i", "d">>) \o <<":">>
         \o MarshalAssociatedObject(a.ObjectID[1]) \o <<"}">>

\* json.NewEncoder(&b).Encode(body): the bytes written to b, or the error;
\* nothing is written when the value cannot be serialized.
JSONEncode(body) ==
    IF body.kind = "chan" THEN [err |-> UnsupportedType, b |-> <<>>]
    ELSE [err |-> Nil, b |-> MarshalAssociation(body) \o <<"\n">>]

\* The three readers a request body can be.
MultiReader == [kind |-> "multiReader", e |-> Nil, buf |-> <<>>, off |-> 0]
errorReader(e) == [kind |-> "errorReader", e |-> e, buf |-> <<>>, off |-> 0]
Buffer(b) == [kind |-> "Buffer", e |-> Nil, buf |-> b, off |-> 0]

\* encode(body)
encode(body) ==
    LET r == JSONEncode(body)
    IN IF r.err # Nil THEN errorReader(r.err) ELSE Buffer(r.b)

Min(a, b) == IF a < b THEN a ELSE b

\* A reader that reports its error once and then the end of the stream.
errorReaderReadOnce(rdr, len) ==
    IF rdr.off = 0
    THEN [n |-> -1, err |-> rdr.e, data |-> <<>>, rdr |-> [rdr EXCEPT !.off = 1]]
    ELSE [n |-> 0, err |-> EOF, data |-> <<>>, rdr |-> rdr]

\* errorReader.Read
errorReaderRead(rdr, len) == [n |-> -1, err |-> rdr.e, data |-> <<>>, rdr |-> rdr]

\* (*bytes.Buffer).Read
BufferRead(rdr, len) ==
    IF rdr.off >= Len(rdr.buf)
    THEN [n |-> 0, err |-> IF len = 0 THEN Nil ELSE EOF, data |-> <<>>,
          rdr |-> [rdr EXCEPT !.buf = <<>>, !.off = 0]]
    ELSE LET n == Min(len, Len(rdr.buf) - rdr.off)
         IN [n |-> n, err |-> Nil, data |-> SubSeq(rdr.buf, rdr.off + 1, rdr.off + n),
             rdr |-> [rdr EXCEPT !.off = @ + n]]

\* io.MultiReader() with no readers: always at end of stream.
MultiReaderRead(rdr, len) == [n |-> 0, err |-> EOF, data |-> <<>>, rdr |-> rdr]

\* Read on a request body, by the dynamic type of the reader.
ReaderRead(rdr, len) ==
    CASE rdr.kind = "errorReader" -> errorReaderRead(rdr, len)
      [] rdr.kind = "Buffer" -> BufferRead(rdr, len)
      [] OTHER -> MultiReaderRead(rdr, len)

(***************************************************************************)
(* net/http.NewRequest, as far as Request depends on it.                   *)
(***************************************************************************)
GET == <<"G", "E", "T">>

\* validMethod: a non-empty token.
validMethod(m) ==
    Len(m) > 0 /\ \A i \in 1..Len(m) : m[i] \notin {" ", "/", ":", "?", "\"", "%"}

\* The authority part of a URL string: between "//" and the next "/" or "?".
Authority(s) ==
    LET c == IndexFrom(s, ":", 1)
        rest == IF c > 0 /\ IndexFrom(Take(s, c), "/", 1) = 0 THEN Drop(s, c) ELSE s
        q == IndexFrom(rest, "?", 1)
        noq == IF q > 0 THEN Take(rest, q - 1) ELSE rest
    IN IF HasPrefix(noq, <<"/", "/">>)
       THEN LET a == Drop(noq, 2)
                sl == IndexFrom(a, "/", 1)
            IN IF sl > 0 THEN Take(a, sl - 1) ELSE a
       ELSE <<>>

\* url.Parse rejects a host with a raw space or a %-escape other than %25.
validHost(h) ==
    \A i \in 1..Len(h) :
        /\ h[i] # " "
        /\ h[i] = "%" => (i + 2 <= Len(h) /\ h[i + 1] = "2" /\ h[i + 2] = "5")

\* http.NewRequest(method, url, body)
NewRequest(method, url, body) ==
    LET m == IF method = <<>> THEN GET ELSE method
    IN IF ~validMethod(m) THEN [err |-> "invalid method", req |-> <<>>]
       ELSE IF ~validHost(Authority(url)) THEN [err |-> "parse", req |-> <<>>]
       ELSE [err |-> Nil, req |-> <<[Method |-> m, URL |-> url, Body |-> body]>>]

(***************************************************************************)
(* The resource builder (internal.go lines 77-132).  Each operation takes  *)
(* the heap of URLs and returns the heap after it.                         *)
(***************************************************************************)
\* Address of the URL the connection holds.
ConnU == 1

\* c.URL(): the connection hands out the address of a fresh copy of its URL.
CloneURL(heap) == [heap |-> Append(heap, heap[ConnU]), u |-> Len(heap) + 1]

\* URL that appends to the base URL's path instead of replacing it.
URLKeepsBasePath(heap, path) ==
    LET c == CloneURL(heap)
        r == [u |-> c.u]
    IN [heap |-> [c.heap EXCEPT ![r.u].Path = @ \o Path \o path], r |-> r]

\* URL that wraps the connection's own URL instead of a copy of it.
URLOfConnection(heap, path) ==
    [heap |-> [Append(heap, heap[ConnU]) EXCEPT ![ConnU].Path = Path \o path],
     r |-> [u |-> ConnU]]

\* URL(c, path)
URL(heap, path) ==
    LET c == CloneURL(heap)
        r == [u |-> c.u]
    IN [heap |-> [c.heap EXCEPT ![r.u].Path = Path \o path], r |-> r]

\* WithID that appends the id as a plain path segment.
WithIDNoPrefix(heap, r, id) == [heap EXCEPT ![r.u].Path = @ \o <<"/">> \o id]

\* WithID that escapes the id when appending it (String escapes it again).
WithIDEscapes(heap, r, id) == [heap EXCEPT ![r.u].Path = @ \o IdSegment \o EscapedPath(id)]

\* WithID that rebuilds the URL from its path and so drops the query.
WithIDResetsQuery(heap, r, id) ==
    [heap EXCEPT ![r.u].Path = @ \o IdSegment \o id, ![r.u].RawQuery = <<>>]

\* (r *Resource) WithID(id)
WithID(heap, r, id) == [heap EXCEPT ![r.u].Path = @ \o IdSegment \o id]

\* (r *Resource) WithAction(action)
WithAction(heap, r, action) == [heap EXCEPT ![r.u].RawQuery = Encode(ActionKey, action)]

\* WithParameter that adds to the query already there.
WithParameterAdds(heap, r, name, value) ==
    [heap EXCEPT ![r.u].RawQuery =
        IF @ = <<>> THEN Encode(name, value) ELSE @ \o <<"&">> \o Encode(name, value)]

\* (r *Resource) WithParameter(name, value)
WithParameter(heap, r, name, value) == [heap EXCEPT ![r.u].RawQuery = Encode(name, value)]

\* Request that encodes the last body argument instead of the first.
RequestLastBody(heap, vals, r, method, body) ==
    LET rdr == IF Len(body) # 0 THEN encode(vals[body[Len(body)]]) ELSE MultiReader
        nr == NewRequest(method, String(heap[r.u]), rdr)
    IN IF nr.err # Nil
       THEN [status |-> "panic", Method |-> <<>>, URL |-> <<>>, Body |-> MultiReader]
       ELSE [status |-> "returned", Method |-> nr.req[1].Method, URL |-> nr.req[1].URL,
             Body |-> nr.req[1].Body]

\* Request that panics on a body that does not serialize, and hands back
\* whatever it has when the request construction fails.
RequestChecksBody(heap, vals, r, method, body) ==
    LET rdr == IF Len(body) # 0 THEN encode(vals[body[1]]) ELSE MultiReader
        nr == NewRequest(method, String(heap[r.u]), rdr)
    IN IF rdr.kind = "errorReader"
       THEN [status |-> "panic", Method |-> <<>>, URL |-> <<>>, Body |-> MultiReader]
       ELSE IF nr.err # Nil
       THEN [status |-> "returned", Method |-> method, URL |-> String(heap[r.u]),
             Body |-> rdr]
       ELSE [status |-> "returned", Method |-> nr.req[1].Method, URL |-> nr.req[1].URL,
             Body |-> nr.req[1].Body]

\* (r *Resource) Request(method, body...): the request, or a panic.
Request(heap, vals, r, method, body) ==
    LET rdr == IF Len(body) # 0 THEN encode(vals[body[1]]) ELSE MultiReader
        nr == NewRequest(method, String(heap[r.u]), rdr)
    IN IF nr.err # Nil
       THEN [status |-> "panic", Method |-> <<>>, URL |-> <<>>, Body |-> MultiReader]
       ELSE [status |-> "returned", Method |-> nr.req[1].Method, URL |-> nr.req[1].URL,
             Body |-> nr.req[1].Body]

(***************************************************************************)
(* Inputs.                                                                 *)
(***************************************************************************)
Https == <<"h", "t", "t", "p", "s">>
Host == <<"h", "o", "s", "t">>

\* The URL a connection can hold: with and without a base path and a query
\* string, and one whose host does not parse.
BaseURLs ==
    { [Scheme |-> Https, Host |-> Host, Path |-> <<>>, RawQuery |-> <<>>],
      [Scheme |-> Https, Host |-> Host, Path |-> <<"/", "s", "d", "k">>,
       RawQuery |-> <<"v", "=", "1">>],
      [Scheme |-> Https, Host |-> <<"h", " ", "t">>, Path |-> <<>>,
       RawQuery |-> <<>>] }

Paths == {SessionPath, LibraryPath}
IDs == {<<"l", "i", "b", "-", "1">>, <<"a", "?">>}
Actions == {<<"s", "y", "n", "c">>}
Parameters == {<<<<"x">>, <<"y">>>>, <<<<"k">>, <<"a", "&", "b">>>>}
Methods == {GET, <<>>, <<"G", " ", "T">>}
Cells == 1..2
Resources == 1..2
BodyArgs == {<<>>, <<1>>, <<2, 1>>}
ReadLens == {16}

NoRequest == [status |-> "none", Method |-> <<>>, URL |-> <<>>, Body |-> MultiReader]
NoCall == [r |-> 0, method |-> <<>>, body |-> <<>>, hist |-> <<>>, first |-> <<>>]

\* The history entry of a Resource just created for path from base URL b.
Created(b, path) == [p |-> path, base |-> b, ops |-> <<>>]

(***************************************************************************)
(* The calls, as actions on the state.                                     *)
(***************************************************************************)
\* r := URL(c, path)
CallURL(path) ==
    /\ Len(res) + 1 \in Resources
    /\ LET o == URL(urls, path)
       IN /\ urls' = o.heap
          /\ res' = Append(res, o.r)
          /\ hist' = Append(hist, Created(urls[ConnU], path))
    /\ UNCHANGED <<bodyVals, req, call, reads, pc, loc, built>>

\* res[i].WithID(id)
CallWithID(i, id) ==
    /\ urls' = WithID(urls, res[i], id)
    /\ hist' = [hist EXCEPT ![i].ops = Append(@, <<"WithID", id>>)]
    /\ UNCHANGED <<res, bodyVals, req, call, reads, pc, loc, built>>

\* res[i].WithAction(action)
CallWithAction(i, action) ==
    /\ urls' = WithAction(urls, res[i], action)
    /\ hist' = [hist EXCEPT ![i].ops = Append(@, <<"WithAction", action>>)]
    /\ UNCHANGED <<res, bodyVals, req, call, reads, pc, loc, built>>

\* res[i].WithParameter(name, value)
CallWithParameter(i, name, value) ==
    /\ urls' = WithParameter(urls, res[i], name, value)
    /\ hist' = [hist EXCEPT ![i].ops = Append(@, <<"WithParameter", name, value>>)]
    /\ UNCHANGED <<res, bodyVals, req, call, reads, pc, loc, built>>

\* res[i].Request(method, body...)
CallRequest(i, method, body) ==
    /\ req' = Request(urls, bodyVals, res[i], method, body)
    /\ call' = [r |-> i, method |-> method, body |-> body, hist |-> hist[i],
                first |-> IF Len(body) # 0 THEN <<bodyVals[body[1]]>> ELSE <<>>]
    /\ reads' = <<>>
    /\ UNCHANGED <<urls, res, hist, bodyVals, pc, loc, built>>

\* History: the first body argument's value as it is when the body is first
\* read (kept with the first read only).
FirstAtRead ==
    IF reads = <<>> /\ Len(call.body) # 0 THEN <<bodyVals[call.body[1]]>> ELSE <<>>

\* A body that is serialized when it is first read, not when the request is built.
CallReadLazy(len) ==
    /\ req.status = "returned"
    /\ Len(reads) < MaxReads
    /\ LET rdr == IF reads = <<>> /\ Len(call.body) # 0
                  THEN encode(bodyVals[call.body[1]])
                  ELSE req.Body
           o == ReaderRead(rdr, len)
       IN /\ req' = [req EXCEPT !.Body = o.rdr]
          /\ reads' = Append(reads, [n |-> o.n, err |-> o.err, data |-> o.data,
                                     val |-> FirstAtRead])
    /\ UNCHANGED <<urls, res, hist, bodyVals, call, pc, loc, built>>

\* req.Body.Read(p) with len(p) = len, by whoever sends the request
CallRead(len) ==
    /\ req.status = "returned"
    /\ Len(reads) < MaxReads
    /\ LET o == ReaderRead(req.Body, len)
       IN /\ req' = [req EXCEPT !.Body = o.rdr]
          /\ reads' = Append(reads, [n |-> o.n, err |-> o.err, data |-> o.data,
                                     val |-> FirstAtRead])
    /\ UNCHANGED <<urls, res, hist, bodyVals, call, pc, loc, built>>

\* The caller changes a body value it owns.
MutateBody(c, v) ==
    /\ bodyVals[c] # v
    /\ bodyVals' = [bodyVals EXCEPT ![c] = v]
    /\ UNCHANGED <<urls, res, hist, req, call, reads, pc, loc, built>>

(***************************************************************************)
(* The builder specification: one connection, and the Resources one caller *)
(* creates from it and chains calls on.                                    *)
(***************************************************************************)
Init ==
    /\ urls \in {<<b>> : b \in BaseURLs}
    /\ res = <<>>
    /\ hist = <<>>
    /\ bodyVals = [c \in Cells |-> Association(<<>>)]
    /\ req = NoRequest
    /\ call = NoCall
    /\ reads = <<>>
    /\ pc = <<>>
    /\ loc = <<>>
    /\ built = <<>>

Next ==
    \/ \E path \in Paths : CallURL(path)
    \/ \E i \in 1..Len(res), id \in IDs :
           Len(hist[i].ops) < MaxOps /\ CallWithID(i, id)
    \/ \E i \in 1..Len(res), action \in Actions :
           Len(hist[i].ops) < MaxOps /\ CallWithAction(i, action)
    \/ \E i \in 1..Len(res), nv \in Parameters :
           Len(hist[i].ops) < MaxOps /\ CallWithParameter(i, nv[1], nv[2])

Spec == Init /\ [][Next]_vars

(***************************************************************************)
(* The request specification: two Resources created from one connection;   *)
(* the caller chains calls on the first, builds requests from it and reads *)
(* their bodies, and goes on changing the body values it passed.           *)
(***************************************************************************)
InitBody ==
    /\ \E b \in BaseURLs :
          LET o1 == URL(<<b>>, LibraryPath)
              o2 == URL(o1.heap, SessionPath)
          IN /\ urls = o2.heap
             /\ res = <<o1.r, o2.r>>
             /\ hist = <<Created(b, LibraryPath), Created(b, SessionPath)>>
    /\ bodyVals \in [Cells -> BodyValues]
    /\ req = NoRequest
    /\ call = NoCall
    /\ reads = <<>>
    /\ pc = <<>>
    /\ loc = <<>>
    /\ built = <<>>

NextBody ==
    \/ \E id \in IDs : Len(hist[1].ops) < MaxBodyOps /\ CallWithID(1, id)
    \/ \E action \in Actions : Len(hist[1].ops) < MaxBodyOps /\ CallWithAction(1, action)
    \/ \E nv \in Parameters :
           Len(hist[1].ops) < MaxBodyOps /\ CallWithParameter(1, nv[1], nv[2])
    \/ \E method \in Methods, body \in BodyArgs : CallRequest(1, method, body)
    \/ \E len \in ReadLens : CallRead(len)
    \/ \E c \in Cells, v \in BodyValues : MutateBody(c, v)

SpecBody == InitBody /\ [][NextBody]_vars

(***************************************************************************)
(* The race specification: two request-construction chains,                *)
(*     r.WithID(id).WithAction(a).Request(GET)        (chain 1)            *)
(*     r.WithID(id).WithParameter(n, v).Request(GET)  (chain 2)            *)
(* run concurrently, either on one shared Resource or each on its own.     *)
(* No method takes a lock, so the steps are the memory accesses:           *)
(* `r.u.Path += ...` is a load and a store, and String() loads the path    *)
(* and then the query.  A load that overlaps another chain's store of the  *)
(* same string is a data race and may see the pointer of one string with   *)
(* the length of the other.                                                *)
(***************************************************************************)
Chains == 1..2
ChainID(t) == IF t = 1 THEN <<"l", "i", "b", "-", "1">> ELSE <<"a", "?">>
ChainQuery(t) ==
    IF t = 1 THEN <<"WithAction", <<"s", "y", "n", "c">>>>
    ELSE <<"WithParameter", <<"x">>, <<"y">>>>

\* One byte of memory the program does not own.
Unknown == "?mem"

\* A string header with the pointer of s and length n.
Mix(s, n) == IF n <= Len(s) THEN Take(s, n) ELSE s \o [i \in 1..(n - Len(s)) |-> Unknown]

\* What a load can return while a store of `new` over `old` is in progress.
Torn(old, new) == {old, new, Mix(old, Len(new)), Mix(new, Len(old))}

\* The value chain t is about to store into r.u.Path.
PendingPath(t) == loc[t].path \o IdSegment \o ChainID(t)

\* The value chain t is about to store into r.u.RawQuery.
PendingQuery(t) ==
    LET q == ChainQuery(t)
    IN IF q[1] = "WithAction" THEN Encode(ActionKey, q[2]) ELSE Encode(q[2], q[3])

\* The chains other than t that use the same Resource.
Sharing(t) == {o \in Chains \ {t} : loc[o].r = loc[t].r}

\* What chain t can load from r.u.Path and from r.u.RawQuery.
LoadPath(t) ==
    {urls[res[loc[t].r].u].Path}
    \cup UNION {Torn(urls[res[loc[t].r].u].Path, PendingPath(o)) :
                  o \in {o \in Sharing(t) : pc[o] = "WithID.store"}}

LoadQuery(t) ==
    {urls[res[loc[t].r].u].RawQuery}
    \cup UNION {Torn(urls[res[loc[t].r].u].RawQuery, PendingQuery(o)) :
                  o \in {o \in Sharing(t) : pc[o] = "WithQuery"}}

\* The heap as chain t sees it: r.u with the path (and query) it has loaded.
View(t, query) ==
    [urls EXCEPT ![res[loc[t].r].u].Path = loc[t].path,
                 ![res[loc[t].r].u].RawQuery = query]

InitRace ==
    /\ \E b \in BaseURLs, shared \in BOOLEAN :
          LET o1 == URL(<<b>>, LibraryPath)
              o2 == URL(o1.heap, LibraryPath)
          IN /\ urls = o2.heap
             /\ res = <<o1.r, o2.r>>
             /\ hist = <<Created(b, LibraryPath), Created(b, LibraryPath)>>
             /\ loc = [t \in Chains |-> [r |-> IF shared THEN 1 ELSE t, path |-> <<>>]]
    /\ bodyVals = [c \in Cells |-> Association(<<>>)]
    /\ req = NoRequest
    /\ call = NoCall
    /\ reads = <<>>
    /\ pc = [t \in Chains |-> "WithID"]
    /\ built = [t \in Chains |-> NoRequest]

\* WithID, first half: load r.u.Path
WithIDLoad(t) ==
    /\ pc[t] = "WithID"
    /\ \E v \in LoadPath(t) : loc' = [loc EXCEPT ![t].path = v]
    /\ pc' = [pc EXCEPT ![t] = "WithID.store"]
    /\ UNCHANGED <<urls, res, hist, bodyVals, req, call, reads, built>>

\* WithID, second half: store the loaded path with the id segment appended
WithIDStore(t) ==
    /\ pc[t] = "WithID.store"
    /\ urls' = WithID(View(t, urls[res[loc[t].r].u].RawQuery), res[loc[t].r], ChainID(t))
    /\ hist' = [hist EXCEPT ![loc[t].r].ops = Append(@, <<"WithID", ChainID(t)>>)]
    /\ pc' = [pc EXCEPT ![t] = "WithQuery"]
    /\ UNCHANGED <<res, bodyVals, req, call, reads, loc, built>>

\* WithAction or WithParameter: one store to r.u.RawQuery
WithQuery(t) ==
    /\ pc[t] = "WithQuery"
    /\ LET q == ChainQuery(t)
       IN urls' = IF q[1] = "WithAction"
                  THEN WithAction(urls, res[loc[t].r], q[2])
                  ELSE WithParameter(urls, res[loc[t].r], q[2], q[3])
    /\ hist' = [hist EXCEPT ![loc[t].r].ops = Append(@, ChainQuery(t))]
    /\ pc' = [pc EXCEPT ![t] = "Request"]
    /\ UNCHANGED <<res, bodyVals, req, call, reads, loc, built>>

\* Request, first half: String() loads r.u.Path
RequestLoad(t) ==
    /\ pc[t] = "Request"
    /\ \E v \in LoadPath(t) : loc' = [loc EXCEPT ![t].path = v]
    /\ pc' = [pc EXCEPT ![t] = "Request.build"]
    /\ UNCHANGED <<urls, res, hist, bodyVals, req, call, reads, built>>

\* Request, second half: String() loads r.u.RawQuery and the request is built
RequestBuild(t) ==
    /\ pc[t] = "Request.build"
    /\ \E q \in LoadQuery(t) :
           built' = [built EXCEPT
                       ![t] = Request(View(t, q), bodyVals, res[loc[t].r], GET, <<>>)]
    /\ pc' = [pc EXCEPT ![t] = "done"]
    /\ UNCHANGED <<urls, res, hist, bodyVals, req, call, reads, loc>>

NextRace ==
    \/ \E t \in Chains : WithIDLoad(t)
    \/ \E t \in Chains : WithIDStore(t)
    \/ \E t \in Chains : WithQuery(t)
    \/ \E t \in Chains : RequestLoad(t)
    \/ \E t \in Chains : RequestBuild(t)

SpecRace == InitRace /\ [][NextRace]_vars

(***************************************************************************)
(* What the histories say the state should be.                             *)
(***************************************************************************)
IsWithID(o) == o[1] = "WithID"
IsQuery(o) == o[1] \in {"WithAction", "WithParameter"}
IdsOf(ops) == SelectSeq(ops, IsWithID)
QueriesOf(ops) == SelectSeq(ops, IsQuery)
Last(s) == s[Len(s)]
IsPrefix(a, b) == Len(a) <= Len(b) /\ Take(b, Len(a)) = a

URLOf(i) == urls[res[i].u]

\* "/rest" + p + "/id:id1" + ... + "/id:idN"
ExpectedPath(h) ==
    LET ids == IdsOf(h.ops)
    IN Path \o h.p \o Concat([k \in 1..Len(ids) |-> IdSegment \o ids[k][2]])

\* The key/value pair a WithAction or WithParameter call sets.
PairOf(o) == IF o[1] = "WithAction" THEN <<ActionKey, o[2]>> ELSE <<o[2], o[3]>>

\* Splitting s at every occurrence of the character c.
RECURSIVE Split(_, _)
Split(s, c) ==
    LET k == IndexFrom(s, c, 1)
    IN IF k = 0 THEN <<s>> ELSE <<Take(s, k - 1)>> \o Split(Drop(s, k), c)

\* The character a %XY escape stands for.
Unhex(x, y) ==
    CASE <<x, y>> = <<"2", "6">> -> "&"
      [] <<x, y>> = <<"3", "D">> -> "="
      [] <<x, y>> = <<"3", "F">> -> "?"
      [] <<x, y>> = <<"2", "F">> -> "/"
      [] <<x, y>> = <<"3", "A">> -> ":"
      [] <<x, y>> = <<"2", "5">> -> "%"
      [] <<x, y>> = <<"2", "B">> -> "+"
      [] OTHER -> "?undefined"

RECURSIVE QueryUnescape(_)
QueryUnescape(s) ==
    IF s = <<>> THEN <<>>
    ELSE IF s[1] = "%" /\ Len(s) >= 3 THEN <<Unhex(s[2], s[3])>> \o QueryUnescape(Drop(s, 3))
    ELSE IF s[1] = "+" THEN <<" ">> \o QueryUnescape(Tail(s))
    ELSE <<s[1]>> \o QueryUnescape(Tail(s))

\* The key/value pairs a server decodes from a raw query string.
ParseQuery(q) ==
    IF q = <<>> THEN <<>>
    ELSE LET parts == Split(q, "&")
         IN [k \in 1..Len(parts) |->
               LET e == IndexFrom(parts[k], "=", 1)
               IN IF e = 0 THEN <<QueryUnescape(parts[k]), <<>>>>
                  ELSE <<QueryUnescape(Take(parts[k], e - 1)),
                         QueryUnescape(Drop(parts[k], e))>>]

\* The raw query the history leads to: the base URL's until a call sets one.
ExpectedQuery(h) ==
    LET qs == QueriesOf(h.ops)
    IN IF qs = <<>> THEN h.base.RawQuery
       ELSE LET kv == PairOf(Last(qs)) IN Encode(kv[1], kv[2])

ExpectedURL(h) ==
    [Scheme |-> h.base.Scheme, Host |-> h.base.Host, Path |-> ExpectedPath(h),
     RawQuery |-> ExpectedQuery(h)]

\* All the bytes the reads of the latest request's body have delivered.
Delivered == Concat([k \in 1..Len(reads) |-> reads[k].data])

HasSpace(s) == \E k \in 1..Len(s) : s[k] = " "

\* The request construction of the latest Request call fails: the method is
\* not a token or the host of the URL does not parse.
ConstructionFails == HasSpace(call.method) \/ HasSpace(call.hist.base.Host)

(***************************************************************************)
(* C1                                                                      *)
(***************************************************************************)
\* C1 as stated: a Resource fresh from URL(c, p) has path "/rest" + p and an
\* empty query string, whatever base URL the connection supplies.
C1_CreateHasNoQuery ==
    \A i \in 1..Len(res) :
        hist[i].ops = <<>> =>
            /\ URLOf(i).Path = Path \o hist[i].p
            /\ URLOf(i).RawQuery = <<>>

\* C1 amended: a Resource fresh from URL(c, p) has path "/rest" + p (the base
\* URL's own path is replaced), and its scheme, host and query string are
\* those of the base URL: the query is empty only when the base URL's is.
C1_CreateKeepsBaseQuery ==
    \A i \in 1..Len(res) :
        hist[i].ops = <<>> =>
            /\ URLOf(i).Path = Path \o hist[i].p
            /\ URLOf(i).RawQuery = hist[i].base.RawQuery
            /\ URLOf(i).Scheme = hist[i].base.Scheme
            /\ URLOf(i).Host = hist[i].base.Host

\* A fresh Resource created from a base URL with a base path and a query.
C1_Witness ==
    \E i \in 1..Len(res) :
        /\ hist[i].ops = <<>>
        /\ hist[i].base.Path # <<>>
        /\ hist[i].base.RawQuery # <<>>

(***************************************************************************)
(* C2                                                                      *)
(***************************************************************************)
\* C2: after URL(c, p) and any sequence of builder calls, the path is
\* "/rest" + p followed by one "/id:<id>" per WithID call, in call order.
C2_WithIDAppends ==
    \A i \in 1..Len(res) : URLOf(i).Path = ExpectedPath(hist[i])

\* Two WithID calls with different ids were made on one Resource.
C2_Witness ==
    \E i \in 1..Len(res) :
        LET ids == IdsOf(hist[i].ops)
        IN Len(ids) >= 2 /\ ids[1] # ids[2]

(***************************************************************************)
(* C3                                                                      *)
(***************************************************************************)
\* C3: once WithAction or WithParameter was called, the query decodes to
\* exactly one key/value pair, the one of the most recent such call; after
\* WithParameter("x", "y") the raw query is "x=y".
C3_LastWriterWins ==
    \A i \in 1..Len(res) :
        LET qs == QueriesOf(hist[i].ops)
        IN qs # <<>> =>
            /\ ParseQuery(URLOf(i).RawQuery) = <<PairOf(Last(qs))>>
            /\ Last(qs) = <<"WithParameter", <<"x">>, <<"y">>>>
                  => URLOf(i).RawQuery = <<"x", "=", "y">>

\* WithAction followed by WithParameter("x", "y") on one Resource.
C3_Witness ==
    \E i \in 1..Len(res) :
        LET qs == QueriesOf(hist[i].ops)
        IN /\ Len(qs) = 2
           /\ qs[1][1] = "WithAction"
           /\ qs[2] = <<"WithParameter", <<"x">>, <<"y">>>>

(***************************************************************************)
(* C4                                                                      *)
(***************************************************************************)
\* The reads of the latest request's body are those of a reader that never
\* delivers a byte and reports error e every time.
OnlyError(e) ==
    \A k \in 1..Len(reads) :
        reads[k].err = e /\ reads[k].n <= 0 /\ reads[k].data = <<>>

\* C4: when the first body argument does not serialize, Request does not
\* panic for that (only a failing request construction makes it panic), and
\* every Read of the request's body, the first and all later ones, returns
\* the serialization error and delivers no bytes.
C4_ErrorDeferred ==
    (req.status # "none" /\ call.first = <<ChanValue>>) =>
        /\ req.status = "panic" => ConstructionFails
        /\ OnlyError(UnsupportedType)

\* A request with a body that does not serialize was built and read twice.
C4_Witness ==
    /\ req.status = "returned"
    /\ call.first = <<ChanValue>>
    /\ Len(reads) >= 2

(***************************************************************************)
(* C5                                                                      *)
(***************************************************************************)
\* C5: whatever is called on the first Resource, the connection's base URL
\* stays the one both Resources were created from, and the second Resource
\* keeps the path and query it was created with.
C5_OwnCopy ==
    /\ urls[ConnU] = hist[1].base
    /\ urls[ConnU] = hist[2].base
    /\ URLOf(2).Path = Path \o hist[2].p
    /\ URLOf(2).RawQuery = hist[2].base.RawQuery

\* The first Resource was changed by a builder call and a request was built
\* from it afterwards.
C5_Witness ==
    /\ req.status = "returned"
    /\ call.hist.ops # <<>>
    /\ URLOf(1) # URLOf(2)

(***************************************************************************)
(* C6                                                                      *)
(***************************************************************************)
\* The body of the latest request behaves as reader e read from its start.
BodyIs(e) ==
    /\ req.Body.kind = e.kind
    /\ req.Body.e = e.e
    /\ e.kind = "errorReader" => OnlyError(e.e)
    /\ e.kind = "Buffer" =>
          /\ IsPrefix(Delivered, e.buf)
          /\ \A k \in 1..Len(reads) :
                /\ reads[k].n = Len(reads[k].data)
                /\ reads[k].err \in {Nil, EOF}
                /\ reads[k].err = EOF => Delivered = e.buf

\* What C6 says of the URL and the body of a returned request.
C6_URLAndBody ==
    /\ req.URL = String(ExpectedURL(call.hist))
    /\ call.body = <<>> =>
          \A k \in 1..Len(reads) :
              reads[k].n = 0 /\ reads[k].err = EOF /\ reads[k].data = <<>>
    /\ call.body # <<>> => BodyIs(encode(call.first[1]))

\* C6 as stated: a returned request has the given method, the URL string the
\* Resource had when Request was called, an empty body when no body argument
\* was passed and the encoding of the first body argument otherwise.
C6_GivenMethod ==
    req.status = "returned" =>
        /\ req.Method = call.method
        /\ C6_URLAndBody

\* C6 amended: the same, except that an empty method string gives a GET
\* request.
C6_MethodOrGET ==
    req.status = "returned" =>
        /\ req.Method = (IF call.method = <<>> THEN GET ELSE call.method)
        /\ C6_URLAndBody

\* A request for the empty method with two body arguments was built after a
\* builder call, and its body was read.
C6_Witness ==
    /\ req.status = "returned"
    /\ call.method = <<>>
    /\ call.hist.ops # <<>>
    /\ Len(call.body) = 2
    /\ bodyVals[call.body[1]] # bodyVals[call.body[2]]
    /\ Delivered # <<>>

(***************************************************************************)
(* C7                                                                      *)
(***************************************************************************)
\* C7: Request panics exactly when the request construction fails (the
\* method is not a token or the URL does not parse), whether or not the body
\* serializes, and a panicking call returns no request.
C7_PanicIffConstructionFails ==
    req.status # "none" =>
        /\ req.status = "panic" <=> ConstructionFails
        /\ req.status = "panic" => (req.Method = <<>> /\ req.URL = <<>>)

\* A Request call has panicked on a URL that does not parse, with a valid
\* method.
C7_Witness ==
    /\ req.status = "panic"
    /\ ~HasSpace(call.method)
    /\ HasSpace(call.hist.base.Host)

(***************************************************************************)
(* C9                                                                      *)
(***************************************************************************)
\* The reads of the latest request's body are what the encoding of value v
\* gives.
ReadsAreOf(v) == BodyIs(encode(v))

\* C9 as stated: what the body stream delivers is the serialization of the
\* body value as it is at the first read.
C9_SerializedAtFirstRead ==
    (req.status = "returned" /\ call.body # <<>> /\ reads # <<>>) =>
        ReadsAreOf(reads[1].val[1])

\* C9 amended: the value is serialized when Request is called; what the body
\* stream delivers (bytes or the stored error) is the serialization of the
\* body value as it was then, whatever the value has become by the first
\* read. Only the report of a serialization error waits for the read.
C9_SerializedAtRequest ==
    (req.status = "returned" /\ call.body # <<>> /\ reads # <<>>) =>
        ReadsAreOf(call.first[1])

\* The body value was changed between the Request call and the first read.
C9_Witness ==
    /\ req.status = "returned"
    /\ call.body # <<>>
    /\ reads # <<>>
    /\ reads[1].val # call.first
    /\ Delivered # <<>>

(***************************************************************************)
(* C10                                                                     *)
(***************************************************************************)
LibraryPathWithID ==
    Path \o LibraryPath \o <<"/", "i", "d", ":", "l", "i", "b", "-", "1">>
ActionSync == <<"~", "a", "c", "t", "i", "o", "n", "=", "s", "y", "n", "c">>

\* C10: scheme and host are never changed; WithID calls alone leave the
\* query as created and WithAction / WithParameter calls alone leave the
\* path as created; and two Resources created alike on which the same WithID
\* calls and the same action/parameter calls were made, interleaved in any
\* way, have the same URL. WithID("lib-1") and WithAction("sync") on the
\* library path give the documented path and query in either order.
C10_PathQueryIndependent ==
    \A i \in 1..Len(res) :
        /\ URLOf(i).Scheme = hist[i].base.Scheme
        /\ URLOf(i).Host = hist[i].base.Host
        /\ QueriesOf(hist[i].ops) = <<>> => URLOf(i).RawQuery = hist[i].base.RawQuery
        /\ IdsOf(hist[i].ops) = <<>> => URLOf(i).Path = Path \o hist[i].p
        /\ \A j \in 1..Len(res) :
              ( /\ hist[i].p = hist[j].p
                /\ IdsOf(hist[i].ops) = IdsOf(hist[j].ops)
                /\ QueriesOf(hist[i].ops) = QueriesOf(hist[j].ops) )
              => URLOf(i) = URLOf(j)
        /\ ( /\ hist[i].p = LibraryPath
             /\ IdsOf(hist[i].ops) = <<<<"WithID", <<"l", "i", "b", "-", "1">>>>>>
             /\ QueriesOf(hist[i].ops) = <<<<"WithAction", <<"s", "y", "n", "c">>>>>> )
           => (URLOf(i).Path = LibraryPathWithID /\ URLOf(i).RawQuery = ActionSync)

\* Two Resources for the library path: WithID then WithAction on one,
\* WithAction then WithID on the other.
C10_Witness ==
    \E i, j \in 1..Len(res) :
        /\ hist[i].p = LibraryPath /\ hist[j].p = LibraryPath
        /\ hist[i].ops = <<<<"WithID", <<"l", "i", "b", "-", "1">>>>,
                           <<"WithAction", <<"s", "y", "n", "c">>>>>>
        /\ hist[j].ops = <<<<"WithAction", <<"s", "y", "n", "c">>>>,
                           <<"WithID", <<"l", "i", "b", "-", "1">>>>>>

(***************************************************************************)
(* C8                                                                      *)
(***************************************************************************)
\* The request chain t builds when it runs alone on a Resource of its own.
SoloURL(t) ==
    String(ExpectedURL([hist[loc[t].r] EXCEPT !.ops = <<<<"WithID", ChainID(t)>>,
                                                       ChainQuery(t)>>]))

Diverges(t) == built[t].status = "returned" /\ built[t].URL # SoloURL(t)

\* C8: a chain builds a request other than the one it builds alone only on a
\* Resource it shares with the other chain; the witness shows that on a
\* shared Resource it does.
C8_DivergesOnlyWhenShared ==
    \A t \in Chains : Diverges(t) => Sharing(t) # {}

\* On a shared Resource chain 1 has built a request that lacks its own id
\* segment and carries the other chain's id segment and query.
C8_Witness ==
    /\ Sharing(1) # {}
    /\ Diverges(1)
    /\ built[1].URL =
          String(ExpectedURL([hist[loc[1].r] EXCEPT !.ops = <<<<"WithID", ChainID(2)>>,
                                                             ChainQuery(2)>>]))

====
